---------------------------- MODULE Spec2Model ----------------------------
(***************************************************************************)
(* Model of the candlestick retriever (src/main.py): the Pair Driver       *)
(* (main), the Series Merger (all_candles_to_csv) and the Batch Fetcher    *)
(* (get_batch), run as one sequential program against an exchange, a       *)
(* wall clock and a data folder.                                           *)
(*                                                                         *)
(* A candle is represented by its open_time, the only field the program    *)
(* inspects (max, comparison with the cursor) and the key of the cleaning  *)
(* routine; a Series file is a sequence of open_time values, or absent.    *)
(***************************************************************************)
EXTENDS Integers, Sequences, FiniteSets, TLC

(* ------------------------------ bounds -------------------------------- *)

\* largest open_time an arbitrary upstream or a prior file carries
MaxTime == 1
\* largest number of rows of one response, and of a prior file
MaxBatch == 2
\* largest number of get_batch calls of one merge under an arbitrary upstream
MaxFetch == 2
\* largest number of consecutive transient failures of one get_batch call
MaxRetry == 2
\* largest number of pairs the listing returns
MaxPairs == 2
\* largest number of runs of the program over the same data folder
MaxRuns == 2
\* largest open_time a paging upstream holds
MaxCandle == 3

(* ----------------------- constants of the program --------------------- *)

\* previous_timestamp = None: differs from every timestamp
None == -1
\* get_batch's default limit
LIMIT == 1000
\* the default interval
INTERVAL == "1m"
\* line 106: time.time()*1000 is a float, a number of ms with a fraction; the
\* clock is kept in ticks, this many to the ms
TicksPerMs == 2

(* ------------------------------ helpers ------------------------------- *)

RECURSIVE SeqsUpTo(_, _)
\* all sequences over S of length at most k
SeqsUpTo(S, k) ==
    IF k = 0 THEN {<<>>}
    ELSE LET shorter == SeqsUpTo(S, k - 1)
         IN  shorter \cup {Append(s, x) : s \in {t \in shorter : Len(t) = k - 1}, x \in S}

Range(s) == {s[i] : i \in 1..Len(s)}

MaxOf(S) == CHOOSE m \in S : \A y \in S : y <= m
MinOf(S) == CHOOSE m \in S : \A y \in S : m <= y
Min(a, b) == IF a <= b THEN a ELSE b

\* the first k elements of s
Take(s, k) == SubSeq(s, 1, Min(k, Len(s)))

\* variant: the open_time of the frame's first row
max_first(rows) == rows[1]

\* Series.max() of the open_time column of a non-empty frame
max(rows) == MaxOf(Range(rows))

RECURSIVE SortedSeq(_)
\* the elements of a finite set of integers, ascending
SortedSeq(S) ==
    IF S = {} THEN <<>>
    ELSE LET m == MinOf(S) IN <<m>> \o SortedSeq(S \ {m})

RECURSIVE concat(_)
\* pd.concat(batches, ignore_index=True): the frames' rows, in order
concat(bs) == IF bs = <<>> THEN <<>> ELSE Head(bs) \o concat(Tail(bs))

\* pp.quick_clean: sort ascending by open_time, one row per open_time
quick_clean(rows) == SortedSeq(Range(rows))

\* a frame's rows strictly increase by open_time (hence no duplicate)
StrictlyIncreasing(rows) == \A i \in 1..(Len(rows) - 1) : rows[i] < rows[i + 1]

\* a frame's rows are in the endpoint's order, oldest first
Ordered(rows) == \A i \in 1..(Len(rows) - 1) : rows[i] <= rows[i + 1]

(* --------------------------- data universe ---------------------------- *)

\* the frames over the open_times 0..t: ordered lists of at most MaxBatch
\* rows, rows of the same open_time allowed
Frames(t) == {r \in SeqsUpTo(0..t, MaxBatch) : Ordered(r)}

NoFile == [exists |-> FALSE, rows |-> <<>>]
File(rows) == [exists |-> TRUE, rows |-> rows]
\* a data folder entry before the run: absent, or a file with rows
\* (its rows in any order)
PriorFiles(t) == {NoFile} \cup {File(r) : r \in SeqsUpTo(0..t, MaxBatch) \ {<<>>}}

\* variant: only the quote asset is looked at
Included_quote(p) == p[2] = "BTC" \/ p[2] = "USDT"

\* main's filter, lines 176-184: bf or qf
Included(p) == (p[1] = "BTC" \/ p[1] = "USDT") \/ (p[2] = "BTC" \/ p[2] = "USDT")

\* symbol=base+quote
Symbol(p) == p[1] \o p[2]

Pairs == {<<"ETH", "BTC">>, <<"BTC", "USDT">>, <<"USDT", "TRY">>, <<"ETH", "BNB">>}

\* an upstream that answers with any frame (a mock)
AnyUpstream == [mode |-> "any", candles |-> {}, page |-> 0, open |-> FALSE]
\* an upstream that answers with any frame of candles that open at startTime
\* or later
ForwardUpstream == [mode |-> "forward", candles |-> {}, page |-> 0, open |-> FALSE]
\* an upstream that holds a fixed set of candles and serves them oldest
\* first, at most page rows per request; when open, its latest candle is the
\* bar that has not closed, and a request for what follows it is answered
\* with that bar
PagedUpstream(candles, page, open) ==
    [mode |-> "paged", candles |-> candles, page |-> page, open |-> open]

(* ------------------------------- state -------------------------------- *)

VARIABLES
    pc,                 \* position of the single flow of control
    runs,               \* number of runs of the program started so far
    exchange,           \* the set of pairs the listing endpoint returns
    upstream,           \* the candlestick endpoint's behaviour
    clock,              \* wall clock, in ticks
    files,              \* data/{base}-{quote}.csv, per pair
    all_pairs, n,       \* main: the shuffled list and the loop index
    batches, last_timestamp, previous_timestamp, old_lines, now, new_batch,
                        \* all_candles_to_csv: its locals
    call,               \* get_batch: the arguments of the running call
    sent,               \* requests issued by the running get_batch call
    got,                \* results get_batch returned to the running merge
    prior,              \* the pair's file as the running merge loaded it
    wrote,              \* the running merge has written the pair's file
    log,                \* what the program did to the outside, all runs: file
                        \* reads and writes, fetches, non-OK responses, messages
    new_lines           \* main: the value the last merge returned

vars == <<pc, runs, exchange, upstream, clock, files, all_pairs, n, batches,
          last_timestamp, previous_timestamp, old_lines, now, new_batch, call,
          sent, got, prior, wrote, log, new_lines>>

env == <<exchange, upstream, clock>>
mainLocals == <<all_pairs, n>>
mergeLocals == <<batches, last_timestamp, previous_timestamp, old_lines, now, new_batch>>
fetchLocals == <<call, sent>>
ghosts == <<got, prior, wrote, log>>

NoCall == [symbol |-> "", interval |-> "", start_time |-> 0, limit |-> 0]

pair == all_pairs[n]

\* the locals of a merge that is not running
MergeIdle ==
    /\ batches = <<>>
    /\ last_timestamp = 0
    /\ previous_timestamp = None
    /\ old_lines = 0
    /\ now = 0
    /\ new_batch = <<>>
    /\ call = NoCall
    /\ sent = <<>>
    /\ got = <<>>
    /\ prior = NoFile
    /\ wrote = FALSE

\* the merge's frame is dropped
ResetMerge ==
    /\ batches' = <<>>
    /\ last_timestamp' = 0
    /\ previous_timestamp' = None
    /\ old_lines' = 0
    /\ now' = 0
    /\ new_batch' = <<>>
    /\ call' = NoCall
    /\ sent' = <<>>
    /\ got' = <<>>
    /\ prior' = NoFile
    /\ wrote' = FALSE

InitWith(listings, priors, upstreams, clocks) ==
    /\ pc = "main"
    /\ runs = 1
    /\ exchange \in listings
    /\ upstream \in upstreams
    /\ clock \in clocks
    /\ \E f \in [{p \in exchange : Included(p)} -> priors] :
          files = [p \in Pairs |-> IF p \in DOMAIN f THEN f[p] ELSE NoFile]
    /\ all_pairs = <<>>
    /\ n = 0
    /\ MergeIdle
    /\ log = <<>>
    /\ new_lines = 0


(* ------------------------------ main ---------------------------------- *)

\* random.shuffle(all_pairs): any order of the same pairs
shuffle(S) ==
    {m \in [1..Cardinality(S) -> S] : \A i, j \in 1..Cardinality(S) : i # j => m[i] # m[j]}

\* lines 162-173: list the pairs, shuffle them, start the loop
main_get_pairs ==
    /\ pc = "main"
    /\ all_pairs' \in shuffle(exchange)
    /\ n' = 1
    /\ pc' = "for"
    /\ UNCHANGED <<runs, env, files, mergeLocals, fetchLocals, ghosts, new_lines>>

\* line 162: the listing call raises; nothing catches it
main_listing_fails ==
    /\ pc = "main"
    /\ pc' = "crashed"
    /\ UNCHANGED <<runs, env, files, mainLocals, mergeLocals, fetchLocals, ghosts, new_lines>>

\* lines 174-184: a pair with neither asset in the allowlist is passed over
main_for_skip ==
    /\ pc = "for"
    /\ n <= Len(all_pairs)
    /\ ~Included(pair)
    /\ n' = n + 1
    /\ UNCHANGED <<pc, runs, env, files, all_pairs, mergeLocals, fetchLocals, ghosts, new_lines>>

\* lines 174-185: an included pair is handed to all_candles_to_csv
main_for_merge ==
    /\ pc = "for"
    /\ n <= Len(all_pairs)
    /\ Included(pair)
    /\ pc' = "load"
    /\ UNCHANGED <<runs, env, files, mainLocals, mergeLocals, fetchLocals, ghosts, new_lines>>

\* lines 174, 191-195: the list is exhausted
main_for_exit ==
    /\ pc = "for"
    /\ n > Len(all_pairs)
    /\ pc' = "done"
    /\ UNCHANGED <<runs, env, files, mainLocals, mergeLocals, fetchLocals, ghosts, new_lines>>

\* variant: a return value of 0 is reported too
reported_zero(k) == k >= 0

\* line 186: the return value is worth a message
reported(k) == k > 0

\* line 187: 'Wrote {new_lines} new lines to file for {base}-{quote}'
Wrote(k) == [run |-> runs, pair |-> all_pairs[n], op |-> "print", lines |-> k]

\* lines 185-187: the merge has returned, its return value is reported when
\* positive; on to the next pair
main_next ==
    /\ pc = "ret"
    /\ log' = IF reported(new_lines) THEN Append(log, Wrote(new_lines)) ELSE log
    /\ n' = n + 1
    /\ pc' = "for"
    /\ ResetMerge
    /\ UNCHANGED <<runs, env, files, all_pairs, new_lines>>

(* ------------------------ all_candles_to_csv -------------------------- *)

Event(op) == [run |-> runs, pair |-> pair, op |-> op]

\* line 99: pd.read_csv of the pair's file, and what it found
Read(f) == [run |-> runs, pair |-> pair, op |-> "read", file |-> f]

\* line 151: df.to_csv to the pair's file, and what it wrote
Written(f) == [run |-> runs, pair |-> pair, op |-> "write", file |-> f]

\* lines 121-125: a call of get_batch
Fetch(c) == [run |-> runs, pair |-> pair, op |-> "fetch", start_time |-> c.start_time]

\* variant: the file's rows are not consulted
loaded_timestamp_zero(f) == 0

\* lines 98-103: the cursor a merge starts from
loaded_timestamp(f) == IF f.exists THEN max(f.rows) ELSE 0

\* lines 97-112: read the pair's file, or start empty; read the clock
load ==
    /\ pc = "load"
    /\ batches' = <<files[pair].rows>>
    /\ last_timestamp' = loaded_timestamp(files[pair])
    /\ old_lines' = Len(files[pair].rows)
    /\ now' = clock
    /\ previous_timestamp' = None
    /\ prior' = files[pair]
    /\ log' = Append(log, Read(files[pair]))
    /\ pc' = "while"
    /\ UNCHANGED <<runs, env, files, mainLocals, new_batch, fetchLocals, got, wrote, new_lines>>

\* variant: the request starts at the cursor itself
next_start_same(ts) == ts

\* line 124: the start_time of the next request
next_start(ts) == ts + 1

\* variant: the loop goes on when the cursor is the clock's reading
reached_after(ts, t) == ts * TicksPerMs > t

\* line 116: last_timestamp >= now, a number of ms against the float
reached(ts, t) == ts * TicksPerMs >= t

\* lines 114-117: the loop ends at its head
while_exit ==
    /\ pc = "while"
    /\ previous_timestamp = last_timestamp \/ reached(last_timestamp, now)
    /\ pc' = "persist"
    /\ UNCHANGED <<runs, env, files, mainLocals, mergeLocals, fetchLocals, ghosts, new_lines>>

\* lines 114-125: the loop goes on and calls get_batch at last_timestamp+1
while_fetch ==
    /\ pc = "while"
    /\ previous_timestamp # last_timestamp
    /\ ~reached(last_timestamp, now)
    /\ previous_timestamp' = last_timestamp
    /\ call' = [symbol |-> Symbol(pair), interval |-> INTERVAL,
                start_time |-> next_start(last_timestamp), limit |-> LIMIT]
    /\ sent' = <<>>
    /\ log' = Append(log, Fetch(call'))
    /\ pc' = "get_batch"
    /\ UNCHANGED <<runs, env, files, mainLocals, batches, last_timestamp, old_lines, now,
                   new_batch, got, prior, wrote, new_lines>>


(* ------------------------------ get_batch ----------------------------- *)

\* lines 62-67: the request's parameters
params(c) ==
    [symbol |-> c.symbol, interval |-> c.interval, startTime |-> c.start_time, limit |-> c.limit]

\* what requests.get can raise
Exceptions == {"ConnectionError", "Timeout", "ConnectionResetError"}

\* lines 71-84: the except clauses, tried in order.  requests.exceptions has no
\* attribute ConnectionResetError, so evaluating the third clause, which
\* happens for every exception the first two do not match, raises
\* AttributeError
handler(exc) ==
    IF exc = "ConnectionError" THEN "retry"
    ELSE IF exc = "Timeout" THEN "retry"
    ELSE "AttributeError"

\* the non-empty frames the running merge has been served
Served == {i \in 1..Len(got) : got[i].rows # <<>>}

\* a paging upstream's answer: the oldest candles at or after startTime
Page(req) ==
    LET avail == SortedSeq({c \in upstream.candles : c >= req.startTime})
    IN  IF avail # <<>> THEN Take(avail, Min(req.limit, upstream.page))
        ELSE IF upstream.open /\ (req.startTime - 1) \in upstream.candles
             THEN <<req.startTime - 1>>
             ELSE <<>>

\* the frames the endpoint can answer a request with; an upstream that
\* neither pages nor keeps to startTime serves any frame, and at most
\* MaxFetch non-empty ones in a merge
Responses(req) ==
    IF upstream.mode = "paged" THEN {Page(req)}
    ELSE IF upstream.mode = "forward"
         THEN {r \in Frames(MaxCandle) : \A i \in 1..Len(r) : r[i] >= req.startTime}
         ELSE IF Cardinality(Served) < MaxFetch THEN Frames(MaxTime) ELSE {<<>>}

\* a request and what became of it
Request(c, outcome) == [params |-> params(c), outcome |-> outcome]

\* lines 70, 86-87: status 200; the payload becomes the frame returned
get_batch_ok ==
    /\ pc = "get_batch"
    /\ \E rows \in Responses(params(call)) :
          /\ new_batch' = rows
          /\ got' = Append(got, [ok |-> TRUE, rows |-> rows])
    /\ sent' = Append(sent, Request(call, "ok"))
    /\ pc' = "batch"
    /\ UNCHANGED <<runs, env, files, mainLocals, batches, last_timestamp, previous_timestamp,
                   old_lines, now, call, prior, wrote, log, new_lines>>

\* variant: any other status is retried like a transient failure
get_batch_error_retry ==
    /\ pc = "get_batch"
    /\ Len(sent) < MaxRetry
    /\ sent' = Append(sent, Request(call, "error"))
    /\ log' = Append(log, Event("non_ok"))
    /\ UNCHANGED <<pc, runs, env, files, mainLocals, mergeLocals, call, got, prior, wrote,
                   new_lines>>

\* lines 70, 86-89: any other status; an empty frame is returned
get_batch_error ==
    /\ pc = "get_batch"
    /\ new_batch' = <<>>
    /\ got' = Append(got, [ok |-> FALSE, rows |-> <<>>])
    /\ sent' = Append(sent, Request(call, "error"))
    /\ log' = Append(log, Event("non_ok"))
    /\ pc' = "batch"
    /\ UNCHANGED <<runs, env, files, mainLocals, batches, last_timestamp, previous_timestamp,
                   old_lines, now, call, prior, wrote, new_lines>>

\* lines 70-79: the request raises, a clause catches it, and after the
\* cooldown get_batch calls itself with the arguments it was given
get_batch_retry ==
    /\ pc = "get_batch"
    /\ Len(sent) < MaxRetry
    /\ \E exc \in Exceptions : handler(exc) = "retry"
    /\ sent' = Append(sent, Request(call, "retry"))
    /\ call' = [symbol |-> call.symbol, interval |-> call.interval,
                start_time |-> call.start_time, limit |-> call.limit]
    /\ UNCHANGED <<pc, runs, env, files, mainLocals, mergeLocals, ghosts, new_lines>>

\* lines 70-81: the request raises and no clause catches it: the error
\* leaves get_batch, all_candles_to_csv and main
get_batch_raises ==
    /\ pc = "get_batch"
    /\ \E exc \in Exceptions : handler(exc) # "retry"
    /\ sent' = Append(sent, Request(call, "AttributeError"))
    /\ pc' = "crashed"
    /\ UNCHANGED <<runs, env, files, mainLocals, mergeLocals, call, ghosts, new_lines>>

(* ------------------- all_candles_to_csv, continued -------------------- *)

\* variant: an empty frame is asked for again
batch_empty_again ==
    /\ pc = "batch"
    /\ new_batch = <<>>
    /\ sent' = <<>>
    /\ log' = Append(log, Fetch(call))
    /\ pc' = "get_batch"
    /\ UNCHANGED <<runs, env, files, mainLocals, mergeLocals, call, got, prior, wrote,
                   new_lines>>

\* variant: the check for no forward progress is missing
nothing_new_never(prev, ts) == FALSE

\* line 136: the latest open_time that came back is the cursor
nothing_new(prev, ts) == prev = ts

\* variant: the frame is not kept
append_drop(bs, b) == bs

\* line 139: batches.append(new_batch)
append(bs, b) == Append(bs, b)

\* lines 127-130: an empty frame ends the loop
batch_empty ==
    /\ pc = "batch"
    /\ new_batch = <<>>
    /\ call' = NoCall
    /\ sent' = <<>>
    /\ pc' = "persist"
    /\ UNCHANGED <<runs, env, files, mainLocals, mergeLocals, ghosts, new_lines>>

\* lines 132-137: the frame's latest open_time is the cursor: nothing new
batch_nothing_new ==
    /\ pc = "batch"
    /\ new_batch # <<>>
    /\ nothing_new(previous_timestamp, max(new_batch))
    /\ last_timestamp' = max(new_batch)
    /\ call' = NoCall
    /\ sent' = <<>>
    /\ pc' = "persist"
    /\ UNCHANGED <<runs, env, files, mainLocals, batches, previous_timestamp, old_lines, now,
                   new_batch, ghosts, new_lines>>

\* variant: the file is written each time a frame is appended
batch_append_write ==
    /\ pc = "batch"
    /\ new_batch # <<>>
    /\ ~nothing_new(previous_timestamp, max(new_batch))
    /\ last_timestamp' = max(new_batch)
    /\ batches' = append(batches, new_batch)
    /\ files' = [files EXCEPT ![pair] = File(quick_clean(concat(batches')))]
    /\ log' = Append(log, Written(files'[pair]))
    /\ call' = NoCall
    /\ sent' = <<>>
    /\ pc' = "while"
    /\ UNCHANGED <<runs, env, mainLocals, previous_timestamp, old_lines, now,
                   new_batch, got, prior, wrote, new_lines>>

\* lines 132-143: the frame is appended and the cursor moves to its latest
\* open_time
batch_append ==
    /\ pc = "batch"
    /\ new_batch # <<>>
    /\ ~nothing_new(previous_timestamp, max(new_batch))
    /\ last_timestamp' = max(new_batch)
    /\ batches' = append(batches, new_batch)
    /\ call' = NoCall
    /\ sent' = <<>>
    /\ pc' = "while"
    /\ UNCHANGED <<runs, env, files, mainLocals, previous_timestamp, old_lines, now,
                   new_batch, ghosts, new_lines>>

\* variant: the fetched frames alone, cleaned
df_fetched == quick_clean(concat(Tail(batches)))

\* variant: the frames concatenated, not cleaned
df_raw == concat(batches)

\* lines 146-147: the frames concatenated and cleaned
df == quick_clean(concat(batches))

\* variant: the file's own frame counts as gathered data
gathered_any == Len(batches) > 0

\* line 150: new data was gathered
gathered == Len(batches) > 1

\* variant: the rows loaded are not subtracted
rows_added_total(d, old) == Len(d)

\* line 152: the value returned after a write
rows_added(d, old) == Len(d) - old

\* lines 150-152: the cleaned frame replaces the pair's file
persist_write ==
    /\ pc = "persist"
    /\ gathered
    /\ files' = [files EXCEPT ![pair] = File(df)]
    /\ wrote' = TRUE
    /\ log' = Append(log, Written(File(df)))
    /\ new_lines' = rows_added(df, old_lines)
    /\ pc' = "ret"
    /\ UNCHANGED <<runs, env, mainLocals, mergeLocals, fetchLocals, got, prior>>

\* lines 150, 153: nothing was gathered; the file is left alone
persist_skip ==
    /\ pc = "persist"
    /\ ~gathered
    /\ new_lines' = 0
    /\ pc' = "ret"
    /\ UNCHANGED <<runs, env, files, mainLocals, mergeLocals, fetchLocals, ghosts>>

(* ---------------------------- the program ----------------------------- *)

\* the program is started again over the same data folder
restart ==
    /\ pc \in {"done", "crashed"}
    /\ runs < MaxRuns
    /\ runs' = runs + 1
    /\ pc' = "main"
    /\ all_pairs' = <<>>
    /\ n' = 0
    /\ ResetMerge
    /\ new_lines' = 0
    /\ UNCHANGED <<env, files, log>>

\* the process is terminated while a merge runs, before line 151 (a signal,
\* a power cut); the data folder stays as it is
interrupt ==
    /\ pc \in {"load", "while", "get_batch", "batch", "persist"}
    /\ log' = Append(log, Event("interrupt"))
    /\ pc' = "crashed"
    /\ UNCHANGED <<runs, env, files, mainLocals, mergeLocals, fetchLocals, got, prior, wrote,
                   new_lines>>

Merge ==
    \/ load \/ while_exit \/ while_fetch
    \/ get_batch_ok \/ get_batch_retry
    \/ batch_empty \/ batch_nothing_new \/ batch_append
    \/ persist_write \/ persist_skip

Main ==
    \/ main_get_pairs \/ main_listing_fails
    \/ main_for_skip \/ main_for_merge \/ main_for_exit \/ main_next

Next == Main \/ Merge \/ get_batch_error \/ get_batch_raises

NextRuns == Next \/ restart

NextResume == Next \/ interrupt \/ restart

\* one included and one excluded pair
MergeUniverse == {<<"ETH", "BTC">>, <<"ETH", "BNB">>}

\* the clock reads the first open_time after 0, or half a millisecond more
\* than the latest
Clocks == {TicksPerMs, MaxTime * TicksPerMs + 1}

\* one run, one merge, any prior file, an upstream that answers anything
Init == InitWith({MergeUniverse}, PriorFiles(MaxTime), {AnyUpstream}, Clocks)

Spec == Init /\ [][Next]_vars

\* the upstreams that hold candles 1..MaxCandle and page them
PagedUpstreams ==
    {PagedUpstream(c, k, o) : c \in SUBSET (1..MaxCandle), k \in 1..MaxBatch, o \in BOOLEAN}

\* the clock reads the latest open_time the exchange can hold: it holds no
\* candle that opens after the clock's reading
PagedClocks == {MaxCandle * TicksPerMs}

\* prior files whose rows are in order, rows of the same open_time allowed
PagedPriors == {NoFile} \cup {File(r) : r \in Frames(MaxCandle) \ {<<>>}}

\* runs of one merge, a paging upstream
InitPaged ==
    InitWith({MergeUniverse}, PagedPriors, PagedUpstreams, PagedClocks)

SpecPaged == InitPaged /\ [][NextRuns]_vars

\* no file, or a file of one row
ResumePriors == {NoFile, File(<<1>>)}

\* runs of one merge that can be terminated, a paging upstream
InitResume == InitWith({MergeUniverse}, ResumePriors, PagedUpstreams, PagedClocks)

SpecResume == InitResume /\ [][NextResume]_vars

\* the clock reads an open_time the upstream can serve, or a later time
LiveClocks == {c * TicksPerMs : c \in (MaxCandle - 1)..(MaxCandle + 1)}

\* the upstreams whose frames keep to startTime, but for the bar that has not
\* closed, which a paging upstream serves again
LiveUpstreams == {ForwardUpstream} \cup PagedUpstreams

\* one run, one merge, an upstream whose frames keep to startTime
InitLive == InitWith({MergeUniverse}, ResumePriors, LiveUpstreams, LiveClocks)

\* the program goes on as long as it can: each statement ends, a request ends
\* within its timeout and a cooldown after five minutes
SpecLive == InitLive /\ [][Next]_vars /\ WF_vars(Next)

\* the listings of at most MaxPairs pairs
Listings == {S \in SUBSET Pairs : Cardinality(S) <= MaxPairs}

\* one run over several pairs, no prior file, a paging upstream
InitPairs == InitWith(Listings, {NoFile}, PagedUpstreams, PagedClocks)

SpecPairs == InitPairs /\ [][Next]_vars

(* ------------------------------ properties --------------------------- *)

MergePcs == {"while", "get_batch", "batch", "persist", "ret"}

Last(q) == q[Len(q)]

\* the latest open_time of the file the running merge loaded, 0 without file
PriorMax == IF prior.exists THEN MaxOf(Range(prior.rows)) ELSE 0

\* the number of frames the running merge has appended
Appended == Len(batches) - 1

\* every result get_batch returned to the running merge was a 200 response
AllOk == \A i \in 1..Len(got) : got[i].ok

\* the candles of a paging upstream the loaded file's cursor leaves to fetch
NewCandles == {c \in upstream.candles : c > PriorMax}

\* the loaded file's rows, then the new candles, cleaned
Resumed == quick_clean(prior.rows \o SortedSeq(NewCandles))

\* C1 (resumability): when a merge against a paging upstream returns, every
\* response having been a 200 and the upstream's candles up to the file's
\* latest open_time being on file, the file is rewritten exactly when the
\* upstream holds newer candles, the file written is the cleaned
\* concatenation of the old rows and all newer candles, whatever the page
\* size, and the value returned is the number of rows that adds.
C1_Resumable ==
    (/\ pc = "ret"
     /\ AllOk
     /\ {c \in upstream.candles : c <= PriorMax} \subseteq Range(prior.rows))
    => /\ wrote <=> NewCandles # {}
       /\ wrote => /\ files[pair] = File(Resumed)
                   /\ new_lines = Len(Resumed) - Len(prior.rows)
       /\ ~wrote => files[pair] = prior /\ new_lines = 0

\* prior [1], upstream [2, 3] served one row a page, in two fetches: the
\* file is [1, 2, 3] and 2 rows were added
C1_Witness ==
    /\ pc = "ret"
    /\ prior = File(<<1>>)
    /\ upstream.candles = {2, 3}
    /\ upstream.page = 1
    /\ Len(got) = 2
    /\ got[2] = [ok |-> TRUE, rows |-> <<3>>]
    /\ wrote
    /\ files[pair] = File(<<1, 2, 3>>)
    /\ new_lines = 2

\* C2 (idempotence): a merge of a second or later run, against an upstream
\* that holds no candle newer than the file's latest open_time, does not
\* write the file, leaves it as it found it and returns 0.
C2_Idempotent ==
    (/\ pc = "ret"
     /\ runs >= 2
     /\ \A c \in upstream.candles : c <= PriorMax)
    => /\ ~wrote
       /\ files[pair] = prior
       /\ new_lines = 0

\* a second run, after a first run that wrote the pair's file, fetched once
\* and returned
C2_Witness ==
    /\ pc = "ret"
    /\ runs = 2
    /\ \E i \in 1..Len(log) : log[i].run = 1 /\ log[i].pair = pair /\ log[i].op = "write"
    /\ \A c \in upstream.candles : c <= PriorMax
    /\ Len(got) = 1
    /\ got[1].ok
    /\ files[pair] = prior
    /\ new_lines = 0

\* C3 (write only on new data): at every point of a merge, the file has
\* been written only if a frame was appended, and as long as none is the
\* file is the one the merge loaded.
C3_WriteOnlyIfAppended ==
    pc \in MergePcs
    => /\ wrote => Appended >= 1
       /\ Appended < 1 => ~wrote /\ files[pair] = prior
       /\ \A p \in Pairs \ {pair} : files[p] = NoFile

\* a merge whose first response was not a 200 returned with the file it
\* loaded untouched
C3_Witness ==
    /\ pc = "ret"
    /\ prior.exists
    /\ Len(got) = 1
    /\ ~got[1].ok
    /\ ~wrote
    /\ files[pair] = prior

\* C4 (monotonic uniqueness): every file a merge has written has open_time
\* strictly increasing from row to row.
C4_StrictlyIncreasing ==
    \A i \in 1..Len(log) :
        log[i].op = "write" => StrictlyIncreasing(files[log[i].pair].rows)

\* a merge wrote a file from a working set that was not in strict order
C4_Witness ==
    /\ pc = "ret"
    /\ wrote
    /\ ~StrictlyIncreasing(concat(batches))
    /\ Len(files[pair].rows) >= 2

\* C5 (nothing dropped, nothing fabricated): when a merge returns, the
\* frames it accumulated are the file's rows followed by the 200 responses
\* in the order they came, all of them except possibly the last one, at
\* which the loop stopped; and if any was appended the file written holds
\* exactly the open_times of that working set.
C5_IncorporatedOrHalted ==
    pc = "ret"
    => /\ batches[1] = prior.rows
       /\ Appended <= Len(got)
       /\ Len(got) <= Appended + 1
       /\ \A i \in 1..Appended : got[i].ok /\ batches[i + 1] = got[i].rows
       /\ Appended >= 1
          => /\ wrote
             /\ Range(files[pair].rows) =
                  Range(prior.rows) \cup UNION {Range(got[i].rows) : i \in 1..Appended}

\* two frames were appended and the third response ended the loop
C5_Witness ==
    /\ pc = "ret"
    /\ Len(got) = 3
    /\ Appended = 2
    /\ wrote

\* C6 (transient failures are retried): when get_batch returns, it has
\* issued one request per transient failure and one more, all with the
\* parameters of the call, and returned what the last response was; and no
\* failure of a request leaves get_batch as an error.
C6_TransientRetried ==
    /\ \A i \in 1..Len(sent) :
          /\ sent[i].params = params(call)
          /\ sent[i].outcome # "AttributeError"
          /\ i < Len(sent) => sent[i].outcome = "retry"
    /\ pc = "batch"
       => /\ Last(sent).outcome \in {"ok", "error"}
          /\ Last(got).ok <=> Last(sent).outcome = "ok"
          /\ new_batch = Last(got).rows

\* C7 (non-OK responses): a response that is not a 200 makes get_batch
\* return an empty frame at once, the merge then stops paginating without a
\* further request and without an error, and when the driver is done every
\* included pair of the listing has been merged.
C7_NonOkStops ==
    /\ (sent # <<>> /\ Last(sent).outcome = "error")
       => pc = "batch" /\ new_batch = <<>> /\ ~Last(got).ok
    /\ (pc \in MergePcs \cup {"crashed"} /\ got # <<>> /\ ~Last(got).ok)
       => pc \in {"batch", "persist", "ret"}
    /\ pc = "done"
       => \A p \in exchange :
            Included(p) => \E i \in 1..Len(log) : log[i].pair = p /\ log[i].op = "read"

\* the driver is done, and a pair was merged after another pair's merge
\* had met a response that was not a 200
C7_Witness ==
    /\ pc = "done"
    /\ \E i, j \in 1..Len(log) :
          /\ i < j
          /\ log[i].op = "non_ok"
          /\ log[j].op = "read"
          /\ log[j].pair # log[i].pair

\* C8 as stated: the value returned is always the cleaned row count minus
\* the row count loaded.
C8_Original ==
    pc = "ret" => new_lines = Len(quick_clean(concat(batches))) - Len(prior.rows)

\* C8 (rows added): the value returned is the cleaned row count minus the
\* row count loaded when a frame was appended, and 0 when none was; the two
\* agree whenever no two rows of the loaded file share an open_time.
C8_RowsAdded ==
    pc = "ret"
    => /\ Appended >= 1
          => new_lines = Len(quick_clean(concat(batches))) - Len(prior.rows)
       /\ Appended < 1 => new_lines = 0
       /\ Cardinality(Range(prior.rows)) = Len(prior.rows)
          => new_lines = Len(quick_clean(concat(batches))) - Len(prior.rows)

\* a merge that loaded rows and appended a frame returned a positive count
C8_Witness ==
    /\ pc = "ret"
    /\ prior.exists
    /\ Appended >= 1
    /\ new_lines >= 1

\* the first response is a 200 whose latest open_time is the cursor the
\* merge started from
FirstIsCursor ==
    /\ pc \in MergePcs
    /\ Len(got) >= 1
    /\ got[1].ok
    /\ got[1].rows # <<>>
    /\ MaxOf(Range(got[1].rows)) = PriorMax

\* C9 (terminal condition C): once the first response's latest open_time
\* is the cursor the merge started from, the merge calls get_batch no more,
\* appends nothing, does not write the file and returns 0.
C9_NothingNew ==
    FirstIsCursor
    => /\ Len(got) = 1
       /\ pc \in {"batch", "persist", "ret"}
       /\ Appended = 0
       /\ ~wrote
       /\ files[pair] = prior
       /\ pc = "ret" => new_lines = 0

\* a merge that loaded a file met such a response and returned
C9_Witness ==
    /\ FirstIsCursor
    /\ prior.exists
    /\ PriorMax >= 1
    /\ pc = "ret"

\* C10 (empty responses): a merge without prior file calls get_batch at
\* least once, and when every response was an empty 200 it called it once,
\* its working set is empty, it returns 0 and there is still no file.
C10_EmptyResponse ==
    (pc = "ret" /\ ~prior.exists)
    => /\ Len(got) >= 1
       /\ (\A i \in 1..Len(got) : got[i] = [ok |-> TRUE, rows |-> <<>>])
          => /\ Len(got) = 1
             /\ quick_clean(concat(batches)) = <<>>
             /\ new_lines = 0
             /\ ~wrote
             /\ files[pair] = NoFile

\* a merge without prior file got one empty 200 and returned
C10_Witness ==
    /\ pc = "ret"
    /\ ~prior.exists
    /\ got = <<[ok |-> TRUE, rows |-> <<>>]>>
    /\ files[pair] = NoFile

\* the cursor, a number of ms, is at or past the reading of the clock
AtOrPast(ts, t) == ts * TicksPerMs >= t

\* C11 as stated: no fetch while the cursor is at or past the clock's
\* reading, none at all when the file's latest open_time is, and every fetch
\* has start_time <= now.
C11_Original ==
    /\ pc = "get_batch" => ~AtOrPast(previous_timestamp, now)
    /\ (pc \in MergePcs /\ AtOrPast(PriorMax, now))
       => got = <<>> /\ sent = <<>> /\ pc \in {"while", "persist", "ret"}
    /\ pc = "get_batch" => call.start_time * TicksPerMs <= now

\* C11 (terminal condition A): no fetch is issued while the cursor is at or
\* past the clock's reading, a merge whose file's latest open_time is at or
\* past it issues none, and every fetch has start_time - 1 < now, that is
\* start_time < now + 1 ms: the reading has a fraction, so start_time can
\* exceed it by less than a millisecond.
C11_TerminalA ==
    /\ pc = "get_batch" => ~AtOrPast(previous_timestamp, now)
    /\ (pc \in MergePcs /\ AtOrPast(PriorMax, now))
       => got = <<>> /\ sent = <<>> /\ pc \in {"while", "persist", "ret"}
    /\ pc = "get_batch" => /\ call.start_time = previous_timestamp + 1
                           /\ (call.start_time - 1) * TicksPerMs < now

\* a merge whose file's latest open_time is the clock's reading returned
\* without a fetch
C11_Witness ==
    /\ pc = "ret"
    /\ prior.exists
    /\ PriorMax * TicksPerMs = now
    /\ got = <<>>
    /\ new_lines = 0

\* two entries of the log belong to the same merge
SameMerge(i, j) == log[i].run = log[j].run /\ log[i].pair = log[j].pair

\* C12 (sequential, single writer): the log's entries of one pair in one run
\* are one unbroken stretch, which opens with the one read of the pair's
\* file; a write of the file comes after every fetch of the stretch and is
\* followed by nothing but the driver's message, so there is at most one;
\* and whatever the running merge does is the end of its own stretch.
C12_Sequential ==
    /\ \A i, j \in 1..Len(log) :
          (i < j /\ SameMerge(i, j))
          => /\ \A k \in i..j : SameMerge(i, k)
             /\ log[j].op # "read"
             /\ log[i].op = "write" => log[j].op = "print"
             /\ log[i].op # "print"
    /\ \A j \in 1..Len(log) :
          log[j].op # "read" => \E i \in 1..(j - 1) : SameMerge(i, j) /\ log[i].op = "read"
    /\ pc \in MergePcs
       => /\ log # <<>>
          /\ Last(log).run = runs
          /\ Last(log).pair = pair
          /\ call # NoCall => call.symbol = Symbol(pair)

\* the driver is done; two pairs were merged, each with a fetch after its
\* read and a write after its fetches, the second pair's read after the
\* first pair's write
C12_Witness ==
    /\ pc = "done"
    /\ \E i, j, k, l \in 1..Len(log) :
          /\ i < j /\ j < k /\ k < l
          /\ log[i].op = "fetch"
          /\ log[j].op = "write"
          /\ SameMerge(i, j)
          /\ log[k].op = "read"
          /\ ~SameMerge(j, k)
          /\ log[l].op = "write"
          /\ SameMerge(k, l)

\* the latest open_time of a file, 0 without file
FileMax(f) == IF f.exists THEN MaxOf(Range(f.rows)) ELSE 0

\* entry i of the log is the read of a merge that was then terminated
Terminated(i) ==
    /\ log[i].op = "read"
    /\ \E j \in (i + 1)..Len(log) : log[j].op = "interrupt" /\ SameMerge(i, j)

\* the pair's file has not been written since entry i of the log
NotWrittenSince(i) ==
    \A j \in (i + 1)..Len(log) : ~(log[j].op = "write" /\ log[j].pair = log[i].pair)

\* the candles of a paging upstream newer than every row of a file
Newer(f) == {c \in upstream.candles : c > FileMax(f)}

\* the file a merge that is not terminated, and meets 200 responses only,
\* leaves when it finds file f
Uninterrupted(f) ==
    IF Newer(f) = {} THEN f ELSE File(quick_clean(f.rows \o SortedSeq(Newer(f))))

\* the fetches of the running merge, as entries of the log
Fetches == {j \in 1..Len(log) : log[j].op = "fetch" /\ log[j].run = runs /\ log[j].pair = pair}

\* C13 (resumption after interruption): a file that was read and has not
\* been written since, the merge having been terminated or not, is the file
\* that was read; and when the merge of the run after a terminated merge
\* returns, having met 200 responses only, it had loaded the file the
\* terminated merge had read, its first fetch started after that file's
\* latest open_time, and the file is the one a merge that is not terminated
\* leaves.
C13_Resumption ==
    /\ \A i \in 1..Len(log) :
          (log[i].op = "read" /\ NotWrittenSince(i)) => files[log[i].pair] = log[i].file
    /\ \A i \in 1..Len(log) :
          (/\ pc = "ret"
           /\ AllOk
           /\ Terminated(i)
           /\ log[i].pair = pair
           /\ log[i].run = runs - 1)
          => /\ prior = log[i].file
             /\ \A j \in Fetches :
                   (\A k \in Fetches : j <= k) => log[j].start_time = FileMax(log[i].file) + 1
             /\ files[pair] = Uninterrupted(log[i].file)

\* a merge that had read the file [1] and fetched was terminated; the merge
\* of the next run fetched the candles 2 and 3 and wrote the file [1, 2, 3]
C13_Witness ==
    /\ pc = "ret"
    /\ runs = 2
    /\ AllOk
    /\ \E i, j, k \in 1..Len(log) :
          /\ i < j /\ j < k
          /\ log[i].op = "read" /\ log[i].run = 1 /\ log[i].file = File(<<1>>)
          /\ log[j].op = "fetch" /\ log[j].run = 1
          /\ log[k].op = "interrupt" /\ log[k].run = 1
    /\ upstream.candles = {2, 3}
    /\ wrote
    /\ files[pair] = File(<<1, 2, 3>>)

\* the reference currencies
Allowlist == {"BTC", "USDT"}

\* the number of times the merger was invoked for pair p in run r
Invocations(r, p) ==
    Cardinality({i \in 1..Len(log) : log[i].op = "read" /\ log[i].run = r /\ log[i].pair = p})

\* C14 (pair driver coverage): at every point of a run the merger has been
\* invoked at most once for a listed pair with an asset in the allowlist and
\* never for any other pair, and when the driver is done it has been invoked
\* exactly once for each listed pair with an asset in the allowlist,
\* whatever the listing and the order.
C14_Coverage ==
    \A p \in Pairs :
        /\ Invocations(runs, p) <= 1
        /\ ~(p \in exchange /\ (p[1] \in Allowlist \/ p[2] \in Allowlist))
           => Invocations(runs, p) = 0
        /\ (pc = "done" /\ p \in exchange /\ (p[1] \in Allowlist \/ p[2] \in Allowlist))
           => Invocations(runs, p) = 1

\* the driver is done with a listing of a pair with the base asset in the
\* allowlist and a pair with neither asset in it, processed in this order:
\* the merger was invoked for the first and not for the second
C14_Witness ==
    /\ pc = "done"
    /\ all_pairs = <<<<"USDT", "TRY">>, <<"ETH", "BNB">>>>
    /\ Invocations(runs, <<"USDT", "TRY">>) = 1
    /\ Invocations(runs, <<"ETH", "BNB">>) = 0

\* an entry of the log is a fetch of the running merge
IsFetch(e) == e.op = "fetch" /\ e.run = runs /\ e.pair = pair

\* the fetches of the running merge, in the order they were made
Fetched == SelectSeq(log, IsFetch)

\* the start_time of the i-th fetch of the running merge
Start(i) == Fetched[i].start_time

\* the merge has looked at the i-th result get_batch returned
Processed(i) == i < Len(got) \/ pc # "batch"

\* the i-th result is a frame with rows whose latest open_time is not the
\* cursor the fetch started from
Advances(i) ==
    /\ got[i].rows # <<>>
    /\ MaxOf(Range(got[i].rows)) # Start(i) - 1

\* C15 (cursor protocol): the cursor of a merge starts at 0 without file and
\* at the file's latest open_time with one; every fetch has start_time =
\* cursor + 1; and a result with rows whose latest open_time is not the
\* cursor is appended and its latest open_time is the cursor of the next
\* fetch.
C15_CursorProtocol ==
    pc \in MergePcs
    => LET fetched == Fetched
           starts == [i \in 1..Len(fetched) |-> fetched[i].start_time]
           tops == [i \in 1..Len(got) |->
                       IF got[i].rows = <<>> THEN None ELSE MaxOf(Range(got[i].rows))]
       IN  /\ starts = <<>> => last_timestamp = FileMax(prior)
           /\ starts # <<>> => starts[1] = FileMax(prior) + 1
           /\ Len(got) <= Len(starts)
           /\ pc = "get_batch"
              => /\ call.start_time = last_timestamp + 1
                 /\ Last(starts) = call.start_time
                 /\ \A i \in 1..Len(sent) : sent[i].params.startTime = last_timestamp + 1
           /\ \A i \in 1..Len(got) :
                 (tops[i] # None /\ tops[i] # starts[i] - 1 /\ Processed(i))
                 => /\ Len(batches) >= i + 1
                    /\ batches[i + 1] = got[i].rows
                    /\ i = Len(got) => last_timestamp = tops[i]
                    /\ i < Len(starts) => starts[i + 1] = tops[i] + 1

\* a merge that loaded a file is in its third fetch, after two results that
\* moved the cursor
C15_Witness ==
    /\ pc = "get_batch"
    /\ prior.exists
    /\ Len(Fetched) = 3
    /\ Len(got) = 2
    /\ Advances(1) /\ Advances(2)
    /\ Len(sent) = 1

\* C16 (termination of pagination): against an upstream whose frames hold
\* only candles that open at the requested start_time or later (or the bar
\* that has not closed, again), no two fetches of a merge have the same
\* start_time, and, each request failing at most MaxRetry times and none
\* ending in an error that leaves get_batch, every merge that has loaded its
\* file reaches the clean-and-persist step.
C16_Terminates ==
    /\ [](pc \in MergePcs
          => \A i, j \in Fetches : i # j => log[i].start_time # log[j].start_time)
    /\ [](pc # "crashed") => ((pc = "while") ~> (pc = "persist"))

\* a merge reached the clean-and-persist step after two frames that were
\* appended and a third, empty one, the last fetch at start_time MaxCandle
C16_Witness ==
    /\ pc = "persist"
    /\ upstream.mode = "forward"
    /\ Appended = 2
    /\ Len(got) = 3
    /\ got[3].rows = <<>>
    /\ \E i \in 1..Len(log) : log[i].op = "fetch" /\ log[i].start_time = MaxCandle

\* every frame returned to the running merge holds only candles that open
\* at the start_time of its fetch or later
KeepsToStart ==
    \A i \in 1..Len(got) : \A x \in Range(got[i].rows) : x >= Start(i)

\* C17 (cursor monotonicity): in a merge whose every frame holds only
\* candles at or after the start_time asked for, the start_time of each
\* fetch is greater than that of the fetch before, each appended frame moves
\* the cursor up, ending at the present cursor, and each appended frame's
\* candles are newer than every row accumulated before it.
C17_CursorMonotone ==
    (pc \in MergePcs /\ KeepsToStart)
    => /\ \A i, j \in 1..Len(Fetched) : i < j => Start(i) < Start(j)
       /\ \A k \in 2..Len(batches) :
             /\ MaxOf(Range(batches[k])) >
                  (IF k = 2 THEN FileMax(prior) ELSE MaxOf(Range(batches[k - 1])))
             /\ MaxOf(Range(batches[k])) <= last_timestamp
             /\ \A m \in 1..(k - 1) :
                   \A x \in Range(batches[k]) : \A y \in Range(batches[m]) : x > y

\* a merge that loaded a file appended two frames, of two rows and of one,
\* and is in its third fetch
C17_Witness ==
    /\ pc = "get_batch"
    /\ KeepsToStart
    /\ prior.exists
    /\ Appended = 2
    /\ Len(batches[2]) = 2
    /\ Len(Fetched) = 3
    /\ Start(1) < Start(2) /\ Start(2) < Start(3)

\* the rows of the first k results get_batch returned to the running merge
RowsUpTo(k) == concat([i \in 1..k |-> got[i].rows])

\* the entries of the log that are the write of the pair's file in the run
\* before this one
WrittenBefore ==
    {i \in 1..Len(log) : log[i].op = "write" /\ log[i].pair = pair /\ log[i].run = runs - 1}

\* C18 (partial progress is persisted): a merge that returns after it
\* appended k >= 1 frames, whatever stopped it, has written the file with the
\* cleaned rows of the file it loaded and of exactly the first k results;
\* and the merge of the next run loads that file and takes its latest
\* open_time as its cursor.
C18_PartialProgress ==
    /\ (pc = "ret" /\ Appended >= 1)
       => /\ wrote
          /\ \A i \in 1..Appended : got[i].ok
          /\ files[pair] = File(quick_clean(prior.rows \o RowsUpTo(Appended)))
          /\ Last(log).op = "write" /\ Last(log).file = files[pair]
    /\ pc \in MergePcs
       => \A i \in WrittenBefore :
             /\ prior = log[i].file
             /\ Fetches = {} => last_timestamp = MaxOf(Range(log[i].file.rows))
             /\ Fetches # {} => Start(1) = MaxOf(Range(log[i].file.rows)) + 1

\* a merge that had appended met a response that was not a 200 and wrote a
\* file of two rows; the merge of the next run loaded that file and fetched
\* from its latest open_time on
C18_Witness ==
    /\ pc = "ret"
    /\ runs = 2
    /\ Fetches # {}
    /\ \E i, j \in 1..Len(log) :
          /\ j = i + 1
          /\ log[i].op = "non_ok" /\ log[i].run = 1
          /\ log[j].op = "write" /\ log[j].run = 1
          /\ Len(log[j].file.rows) = 2
          /\ prior = log[j].file
          /\ Start(1) = log[j].file.rows[2] + 1

\* C19 (report/write coupling): a merge that returns without having written
\* the file returns 0, a merge that returns another value than 0 has just
\* written it, and every message of the driver reports a value above 0, the
\* one returned by the merge that had just written the pair's file: the
\* rows written less the rows read.
C19_ReportCoupling ==
    /\ pc = "ret"
       => /\ ~wrote => new_lines = 0
          /\ new_lines # 0 => wrote /\ Last(log).op = "write" /\ files[pair] # prior
    /\ \A i \in 1..Len(log) :
          log[i].op = "print"
          => /\ log[i].lines > 0
             /\ i > 1
             /\ log[i - 1].op = "write"
             /\ SameMerge(i - 1, i)
             /\ \E r \in 1..(i - 1) :
                   /\ log[r].op = "read"
                   /\ SameMerge(r, i)
                   /\ log[i].lines = Len(log[i - 1].file.rows) - Len(log[r].file.rows)

\* the driver is done with a run in which a merge that had loaded a file
\* wrote it, and the driver reported one new line
C19_Witness ==
    /\ pc = "done"
    /\ Len(log) >= 3
    /\ Last(log).op = "print"
    /\ Last(log).lines = 1
    /\ log[1].op = "read"
    /\ log[1].file.exists

=============================================================================
